---- MODULE Spec2Model ----
(***************************************************************************)
(* LRU-K replacer of the buffer pool (src/src/buffer/lru_k_replacer.cpp,   *)
(* src/src/include/buffer/lru_k_replacer.h), modelled operation by         *)
(* operation.  In Spec one caller makes the calls and each call is one     *)
(* action.  In SpecThreads several threads make them: a method that takes  *)
(* latch_ is two steps, the first up to its first write of the shared      *)
(* state, the second from there to its return, and Size, which takes no    *)
(* latch, is one step.                                                     *)
(*                                                                         *)
(* size_t values (current_timestamp_, curr_size_, the backward distances)  *)
(* are 64-bit unsigned.  A value v is held as the integer r of smallest    *)
(* magnitude with r = v (mod 2^64): r >= 0 stands for v = r, and r < 0     *)
(* stands for v = 2^64 + r (so -1 is std::numeric_limits<size_t>::max()).  *)
(* On these representatives + and - are plain integer + and -, and the     *)
(* unsigned order is UGt below.  The guards keep every magnitude small, so *)
(* the encoding is exact.                                                  *)
(***************************************************************************)
EXTENDS Integers, Sequences, FiniteSets, TLC

\* ---------------------------------------------------------------- bounds
\* num_frames given to the constructor ranges over 1..MaxFrames
MaxFrames == 2
\* frame ids passed by callers range over 0..MaxFrameId
MaxFrameId == 2
\* k given to the constructor ranges over 1..MaxK
MaxK == 2
\* RecordAccess is not called once current_timestamp_ has reached MaxClock
MaxClock == 3
\* curr_size_ is not decremented below the representative -MaxWrap
MaxWrap == 1
\* SpecThreads: the threads are 1..NumThreads
NumThreads == 2
\* SpecThreads: num_frames ranges over 1..MaxThreadFrameId and the frame ids
\* passed by the threads over 0..MaxThreadFrameId
MaxThreadFrameId == 1
\* SpecThreads: RecordAccess is not called once current_timestamp_ has
\* reached MaxThreadClock
MaxThreadClock == 2

FrameIds == 0..MaxFrameId
ThreadFrameIds == 0..MaxThreadFrameId
Threads == 1..NumThreads
\* the value of latch_ when no thread holds it
NoThread == 0

\* enum class AccessType { Unknown = 0, Lookup, Scan, Index }
AccessType == {"Unknown", "Lookup", "Scan", "Index"}

\* ------------------------------------------------------- size_t arithmetic
\* std::numeric_limits<size_t>::max()
SizeMax == -1

\* static_cast<size_t>(frame_id): sign extension, which keeps the representative
ToSizeT(i) == i

\* a > b on size_t
UGt(a, b) ==
    IF (a < 0) = (b < 0) THEN a > b ELSE a < 0

\* a - b on size_t
USub(a, b) == a - b

\* ----------------------------------------------------------------- state
VARIABLES
    node_store_,          \* unordered_map<frame_id_t, LRUKNode>: key -> node
    current_timestamp_,   \* size_t
    curr_size_,           \* size_t
    replacer_size_,       \* size_t
    k_,                   \* size_t
    alive,                \* FALSE once the process has aborted
    ret,                  \* the last call: its name, arguments and outcome
    latch_,               \* std::mutex: the thread that holds it, or NoThread
    thr,                  \* per thread: the call it is inside and its locals
    stamps                \* per accepted RecordAccess, in the order of locking:
                          \* the timestamp line 101 read (0 until it is read)

vars == <<node_store_, current_timestamp_, curr_size_, replacer_size_, k_, alive,
          ret, latch_, thr, stamps>>

\* what only the threads of SpecThreads change
tvars == <<latch_, thr, stamps>>

\* LRUKNode(): history_ empty, is_evictable_{false}
\* (fid_ and k_ of LRUKNode are written by the constructor and never read)
LRUKNode == [history_ |-> <<>>, is_evictable_ |-> FALSE]

\* LRUKNode::GetBackKTimeStamp
GetBackKTimeStamp(node) ==
    IF Len(node.history_) = 0 THEN SizeMax ELSE Head(node.history_)

\* node_store_.find(frame_id) != node_store_.end()
Found(store, frame_id) == frame_id \in DOMAIN store

\* node_store_.insert / emplace of a key that is absent
Insert(store, frame_id, node) == store @@ (frame_id :> node)

\* node_store_.erase(key): nothing happens when the key is absent
EraseNothing(store, frame_id) == store

Erase(store, frame_id) ==
    [f \in DOMAIN store \ {frame_id} |-> store[f]]

\* the frames whose node has is_evictable_ set
EvictableKeys(store) == {f \in DOMAIN store : store[f].is_evictable_}

\* the frame id that stands for no frame (LRUKNode() sets fid_ to it)
NoFrame == -1

\* What a call was given and what it gave back: the method, its frame_id
\* argument (for Evict, *frame_id after the call), what *frame_id held when
\* Evict was called, the access type, the flag, how the call ended, and the
\* number Size() returned.  Fields a method does not have hold a filler.
Call(op, frame_id, given, access_type, set_evictable, result, value) ==
    [op |-> op, frame_id |-> frame_id, given |-> given,
     access_type |-> access_type, set_evictable |-> set_evictable,
     result |-> result, value |-> value]

\* a thread that is outside every call
Idle ==
    [pc |-> "idle", frame_id |-> NoFrame, given |-> NoFrame, access_type |-> "-",
     set_evictable |-> FALSE, slot |-> 0]

\* LRUKReplacer::LRUKReplacer, with the members' default initialisers
Init ==
    /\ node_store_ = <<>>
    /\ current_timestamp_ = 0
    /\ curr_size_ = 0
    /\ replacer_size_ \in 1..MaxFrames
    /\ k_ \in 1..MaxK
    /\ alive = TRUE
    /\ ret = Call("LRUKReplacer", NoFrame, NoFrame, "-", FALSE, "returned", 0)
    /\ latch_ = NoThread
    /\ thr = [t \in Threads |-> Idle]
    /\ stamps = <<>>

\* ------------------------------------------------------------ RecordAccess
\* lines 105-111: what the local `node` holds when the else-branch ends
RecordAccessLocal(node, access_type, now, k) ==
    IF access_type # "Scan"
    THEN LET pushed == Append(node.history_, now)
         IN  [node EXCEPT !.history_ =
                  IF UGt(Len(pushed), k) THEN Tail(pushed) ELSE pushed]
    ELSE node

\* lines 98-113: node_store_ when RecordAccess returns, `now` being the
\* clock after line 97
StoreAfterRecordAccess(store, frame_id, access_type, now) ==
    IF ~Found(store, frame_id)
    THEN LET new_node ==
                 IF access_type # "Scan"
                 THEN [LRUKNode EXCEPT !.history_ = <<now>>]
                 ELSE LRUKNode
         IN  Insert(store, frame_id, new_node)
    ELSE \* auto node = node_store_[frame_id] declares a copy of the stored
         \* node: RecordAccessLocal(store[frame_id], access_type, now, k_) is
         \* its final value, which is never written back to the map
         store

RecordAccess(frame_id, access_type) ==
    /\ alive
    /\ IF UGt(replacer_size_, ToSizeT(frame_id))
       THEN \* throw std::exception()
            /\ ret' = Call("RecordAccess", frame_id, NoFrame, access_type, FALSE,
                            "exception", 0)
            /\ UNCHANGED <<node_store_, current_timestamp_, curr_size_>>
       ELSE /\ current_timestamp_ < MaxClock
            /\ current_timestamp_' = current_timestamp_ + 1
            /\ node_store_' = StoreAfterRecordAccess(node_store_, frame_id,
                                                     access_type, current_timestamp_')
            /\ ret' = Call("RecordAccess", frame_id, NoFrame, access_type, FALSE,
                            "returned", 0)
            /\ UNCHANGED curr_size_
    /\ UNCHANGED <<replacer_size_, k_, alive>>
    /\ UNCHANGED tvars

\* ------------------------------------------------------------ SetEvictable
\* Line 124 hands the unique_ptr new_node itself to std::make_pair, which no
\* compiler accepts; what lines 122-125 are written to do, and what is taken
\* here, is to emplace a default-constructed LRUKNode under frame_id.
\* lines 128-133 with the flag test dropped: the count moves on every call
SizeCountedOnEveryCall(is_evictable, set_evictable, size) ==
    IF set_evictable THEN size + 1 ELSE USub(size, 1)

\* lines 128-133: curr_size_ after the call, given the node's flag before it
SizeAfterSetEvictable(is_evictable, set_evictable, size) ==
    IF is_evictable # set_evictable
    THEN IF set_evictable THEN size + 1 ELSE USub(size, 1)
    ELSE size

SetEvictable(frame_id, set_evictable) ==
    /\ alive
    /\ IF UGt(ToSizeT(frame_id), replacer_size_)
       THEN \* throw std::out_of_range
            /\ ret' = Call("SetEvictable", frame_id, NoFrame, "-", set_evictable,
                            "out_of_range", 0)
            /\ UNCHANGED <<node_store_, curr_size_>>
       ELSE LET store == IF ~Found(node_store_, frame_id)
                         THEN Insert(node_store_, frame_id, LRUKNode)
                         ELSE node_store_
                node == store[frame_id]
            IN  /\ (node.is_evictable_ /\ ~set_evictable) => curr_size_ > -MaxWrap
                /\ curr_size_' = SizeAfterSetEvictable(node.is_evictable_,
                                                       set_evictable, curr_size_)
                /\ IF node.is_evictable_ # set_evictable
                   THEN node_store_' =
                            [store EXCEPT ![frame_id].is_evictable_ = set_evictable]
                   ELSE node_store_' = store
                /\ ret' = Call("SetEvictable", frame_id, NoFrame, "-", set_evictable,
                            "returned", 0)
    /\ UNCHANGED <<current_timestamp_, replacer_size_, k_, alive>>
    /\ UNCHANGED tvars

\* ------------------------------------------------------------------ Remove
\* After node_store_.erase(frame_id) the reference `node` dangles, and
\* node.history_.clear() acts on the destroyed node: undefined behaviour.
\* The outcomes taken are the two a build produces: the call goes on to
\* curr_size_-- and returns, or the process aborts at the clear().
RemoveOutcome == {"returned", "aborted"}

Remove(frame_id) ==
    /\ alive
    /\ IF UGt(ToSizeT(frame_id), replacer_size_)
       THEN \* throw std::out_of_range
            /\ ret' = Call("Remove", frame_id, NoFrame, "-", FALSE, "out_of_range", 0)
            /\ UNCHANGED <<node_store_, curr_size_, alive>>
       ELSE IF ~Found(node_store_, frame_id)
       THEN /\ ret' = Call("Remove", frame_id, NoFrame, "-", FALSE, "returned", 0)
            /\ UNCHANGED <<node_store_, curr_size_, alive>>
       ELSE IF ~node_store_[frame_id].is_evictable_
       THEN \* throw std::exception()
            /\ ret' = Call("Remove", frame_id, NoFrame, "-", FALSE, "exception", 0)
            /\ UNCHANGED <<node_store_, curr_size_, alive>>
       ELSE \E outcome \in RemoveOutcome :
            /\ node_store_' = Erase(node_store_, frame_id)
            /\ IF outcome = "returned"
               THEN /\ curr_size_ > -MaxWrap
                    /\ curr_size_' = USub(curr_size_, 1)
                    /\ alive' = TRUE
               ELSE /\ curr_size_' = curr_size_
                    /\ alive' = FALSE
            /\ ret' = Call("Remove", frame_id, NoFrame, "-", FALSE, outcome, 0)
    /\ UNCHANGED <<current_timestamp_, replacer_size_, k_>>
    /\ UNCHANGED tvars

\* ------------------------------------------------------------------- Evict
\* The loop body ends in `return success`, so the body runs once, for the
\* first evictable entry `it` of the iteration.  `given` is what *frame_id
\* holds when the call is made.  The value is *frame_id after the body's
\* three assignments (lines 50, 56, 64) have had their chance.
EvictChoice(first, node, given, now, k) ==
    LET is_inf == FALSE
        max_bkd == 0
        max_lessk_bkd == 0
        after49 == IF Len(node.history_) = 0 THEN first ELSE given
    IN  IF Len(node.history_) = k /\ ~is_inf
        THEN LET cur_bkd == USub(now, GetBackKTimeStamp(node))
             IN  IF UGt(cur_bkd, max_bkd) THEN first ELSE after49
        ELSE IF UGt(k, Len(node.history_))
        THEN LET cur_less_bkd == USub(now, GetBackKTimeStamp(node))
             IN  IF UGt(cur_less_bkd, max_lessk_bkd) THEN first ELSE after49
        ELSE after49

\* The iteration order of an unordered_map is unspecified, so the first
\* evictable entry the loop meets is any of the evictable entries.
Evict(given) ==
    /\ alive
    /\ IF ~UGt(curr_size_, 0)
       THEN \* if(curr_size_<=0) return false
            /\ ret' = Call("Evict", given, given, "-", FALSE, "false", 0)
            /\ UNCHANGED <<node_store_, curr_size_>>
       ELSE IF EvictableKeys(node_store_) = {}
       THEN \* every entry is skipped by `continue`; return false after the loop
            /\ ret' = Call("Evict", given, given, "-", FALSE, "false", 0)
            /\ UNCHANGED <<node_store_, curr_size_>>
       ELSE \E first \in EvictableKeys(node_store_) :
            LET victim == EvictChoice(first, node_store_[first], given,
                                      current_timestamp_, k_)
            IN  /\ curr_size_ > -MaxWrap
                /\ curr_size_' = USub(curr_size_, 1)
                /\ node_store_' = Erase(node_store_, victim)
                /\ ret' = Call("Evict", victim, given, "-", FALSE, "true", 0)
    /\ UNCHANGED <<current_timestamp_, replacer_size_, k_, alive>>
    /\ UNCHANGED tvars

\* -------------------------------------------------------------------- Size
Size ==
    /\ alive
    /\ ret' = Call("Size", NoFrame, NoFrame, "-", FALSE, "returned", curr_size_)
    /\ UNCHANGED <<node_store_, current_timestamp_, curr_size_, replacer_size_,
                   k_, alive>>
    /\ UNCHANGED tvars

Next ==
    \/ \E f \in FrameIds, t \in AccessType : RecordAccess(f, t)
    \/ \E f \in FrameIds, b \in BOOLEAN : SetEvictable(f, b)
    \/ \E f \in FrameIds : Remove(f)
    \/ \E g \in FrameIds : Evict(g)
    \/ Size

Spec == Init /\ [][Next]_vars

\* ----------------------------------------------------------------- threads
\* std::lock_guard<std::mutex> lock(latch_): the constructor returns once no
\* thread holds latch_
LockableAlways(latch) == TRUE

Lockable(latch) == latch = NoThread

\* the locals of thread t inside method op
Inside(op, frame_id, given, access_type, set_evictable, slot) ==
    [pc |-> op, frame_id |-> frame_id, given |-> given,
     access_type |-> access_type, set_evictable |-> set_evictable, slot |-> slot]

InitThreads ==
    /\ node_store_ = <<>>
    /\ current_timestamp_ = 0
    /\ curr_size_ = 0
    /\ replacer_size_ \in 1..MaxThreadFrameId
    /\ k_ \in 1..MaxK
    /\ alive = TRUE
    /\ ret = Call("LRUKReplacer", NoFrame, NoFrame, "-", FALSE, "returned", 0)
    /\ latch_ = NoThread
    /\ thr = [t \in Threads |-> Idle]
    /\ stamps = <<>>

\* RecordAccess, lines 91-97: lock, range test, current_timestamp_++
RecordAccessTick(t, frame_id, access_type) ==
    /\ alive
    /\ thr[t].pc = "idle"
    /\ Lockable(latch_)
    /\ IF UGt(replacer_size_, ToSizeT(frame_id))
       THEN \* throw std::exception(), which unlocks
            /\ ret' = Call("RecordAccess", frame_id, NoFrame, access_type, FALSE,
                            "exception", 0)
            /\ UNCHANGED <<current_timestamp_, latch_, thr, stamps>>
       ELSE /\ current_timestamp_ < MaxThreadClock
            /\ current_timestamp_' = current_timestamp_ + 1
            /\ latch_' = t
            /\ stamps' = Append(stamps, 0)
            /\ thr' = [thr EXCEPT ![t] = Inside("RecordAccess", frame_id, NoFrame,
                                                access_type, FALSE, Len(stamps) + 1)]
            /\ UNCHANGED ret
    /\ UNCHANGED <<node_store_, curr_size_, replacer_size_, k_, alive>>

\* RecordAccess, lines 98-114: the timestamp is read again from
\* current_timestamp_ (lines 101, 107), then the return unlocks
RecordAccessStore(t) ==
    /\ alive
    /\ thr[t].pc = "RecordAccess"
    /\ node_store_' = StoreAfterRecordAccess(node_store_, thr[t].frame_id,
                                             thr[t].access_type, current_timestamp_)
    /\ stamps' = [stamps EXCEPT ![thr[t].slot] = current_timestamp_]
    /\ latch_' = NoThread
    /\ thr' = [thr EXCEPT ![t] = Idle]
    /\ ret' = Call("RecordAccess", thr[t].frame_id, NoFrame, thr[t].access_type,
                    FALSE, "returned", 0)
    /\ UNCHANGED <<current_timestamp_, curr_size_, replacer_size_, k_, alive>>

\* SetEvictable, lines 118-133: lock, range test, emplace, curr_size_++ or --
SetEvictableCount(t, frame_id, set_evictable) ==
    /\ alive
    /\ thr[t].pc = "idle"
    /\ Lockable(latch_)
    /\ IF UGt(ToSizeT(frame_id), replacer_size_)
       THEN \* throw std::out_of_range, which unlocks
            /\ ret' = Call("SetEvictable", frame_id, NoFrame, "-", set_evictable,
                            "out_of_range", 0)
            /\ UNCHANGED <<node_store_, curr_size_, latch_, thr>>
       ELSE LET store == IF ~Found(node_store_, frame_id)
                         THEN Insert(node_store_, frame_id, LRUKNode)
                         ELSE node_store_
                node == store[frame_id]
            IN  /\ (node.is_evictable_ /\ ~set_evictable) => curr_size_ > -MaxWrap
                /\ node_store_' = store
                /\ curr_size_' = SizeAfterSetEvictable(node.is_evictable_,
                                                       set_evictable, curr_size_)
                /\ IF node.is_evictable_ # set_evictable
                   THEN /\ latch_' = t
                        /\ thr' = [thr EXCEPT ![t] =
                                       Inside("SetEvictable", frame_id, NoFrame, "-",
                                              set_evictable, 0)]
                        /\ UNCHANGED ret
                   ELSE \* nothing more to do: return, which unlocks
                        /\ ret' = Call("SetEvictable", frame_id, NoFrame, "-",
                                        set_evictable, "returned", 0)
                        /\ UNCHANGED <<latch_, thr>>
    /\ UNCHANGED <<current_timestamp_, replacer_size_, k_, alive, stamps>>

\* SetEvictable, lines 134-136: node.is_evictable_ = set_evictable, return
SetEvictableFlag(t) ==
    /\ alive
    /\ thr[t].pc = "SetEvictable"
    /\ node_store_' = [node_store_ EXCEPT
                           ![thr[t].frame_id].is_evictable_ = thr[t].set_evictable]
    /\ latch_' = NoThread
    /\ thr' = [thr EXCEPT ![t] = Idle]
    /\ ret' = Call("SetEvictable", thr[t].frame_id, NoFrame, "-",
                    thr[t].set_evictable, "returned", 0)
    /\ UNCHANGED <<current_timestamp_, curr_size_, replacer_size_, k_, alive, stamps>>

\* Remove, lines 139-151: lock, the three tests, erase, and the clear()
\* through the dangling reference, at which the process may abort
RemoveErase(t, frame_id) ==
    /\ alive
    /\ thr[t].pc = "idle"
    /\ Lockable(latch_)
    /\ IF UGt(ToSizeT(frame_id), replacer_size_)
       THEN \* throw std::out_of_range
            /\ ret' = Call("Remove", frame_id, NoFrame, "-", FALSE, "out_of_range", 0)
            /\ UNCHANGED <<node_store_, alive, latch_, thr>>
       ELSE IF ~Found(node_store_, frame_id)
       THEN /\ ret' = Call("Remove", frame_id, NoFrame, "-", FALSE, "returned", 0)
            /\ UNCHANGED <<node_store_, alive, latch_, thr>>
       ELSE IF ~node_store_[frame_id].is_evictable_
       THEN \* throw std::exception()
            /\ ret' = Call("Remove", frame_id, NoFrame, "-", FALSE, "exception", 0)
            /\ UNCHANGED <<node_store_, alive, latch_, thr>>
       ELSE \E outcome \in RemoveOutcome :
            /\ node_store_' = Erase(node_store_, frame_id)
            /\ IF outcome = "returned"
               THEN /\ curr_size_ > -MaxWrap
                    /\ alive' = TRUE
                    /\ latch_' = t
                    /\ thr' = [thr EXCEPT ![t] =
                                   Inside("Remove", frame_id, NoFrame, "-", FALSE, 0)]
                    /\ UNCHANGED ret
               ELSE /\ alive' = FALSE
                    /\ ret' = Call("Remove", frame_id, NoFrame, "-", FALSE, outcome, 0)
                    /\ UNCHANGED <<latch_, thr>>
    /\ UNCHANGED <<current_timestamp_, curr_size_, replacer_size_, k_, stamps>>

\* Remove, lines 152-154: curr_size_--, return
RemoveCount(t) ==
    /\ alive
    /\ thr[t].pc = "Remove"
    /\ curr_size_' = USub(curr_size_, 1)
    /\ latch_' = NoThread
    /\ thr' = [thr EXCEPT ![t] = Idle]
    /\ ret' = Call("Remove", thr[t].frame_id, NoFrame, "-", FALSE, "returned", 0)
    /\ UNCHANGED <<node_store_, current_timestamp_, replacer_size_, k_, alive, stamps>>

\* Evict, lines 34-72: lock, the loop up to its choice, curr_size_--
EvictCount(t, given) ==
    /\ alive
    /\ thr[t].pc = "idle"
    /\ Lockable(latch_)
    /\ IF ~UGt(curr_size_, 0) \/ EvictableKeys(node_store_) = {}
       THEN \* return false, which unlocks
            /\ ret' = Call("Evict", given, given, "-", FALSE, "false", 0)
            /\ UNCHANGED <<curr_size_, latch_, thr>>
       ELSE \E first \in EvictableKeys(node_store_) :
            LET victim == EvictChoice(first, node_store_[first], given,
                                      current_timestamp_, k_)
            IN  /\ curr_size_ > -MaxWrap
                /\ curr_size_' = USub(curr_size_, 1)
                /\ latch_' = t
                /\ thr' = [thr EXCEPT ![t] =
                               Inside("Evict", victim, given, "-", FALSE, 0)]
                /\ UNCHANGED ret
    /\ UNCHANGED <<node_store_, current_timestamp_, replacer_size_, k_, alive, stamps>>

\* Evict, lines 73-76: node_store_.erase(*frame_id), return success
EvictErase(t) ==
    /\ alive
    /\ thr[t].pc = "Evict"
    /\ node_store_' = Erase(node_store_, thr[t].frame_id)
    /\ latch_' = NoThread
    /\ thr' = [thr EXCEPT ![t] = Idle]
    /\ ret' = Call("Evict", thr[t].frame_id, thr[t].given, "-", FALSE, "true", 0)
    /\ UNCHANGED <<current_timestamp_, curr_size_, replacer_size_, k_, alive, stamps>>

\* Size, line 156: curr_size_ is read with latch_ not taken
SizeRead(t) ==
    /\ alive
    /\ thr[t].pc = "idle"
    /\ ret' = Call("Size", NoFrame, NoFrame, "-", FALSE, "returned", curr_size_)
    /\ UNCHANGED <<node_store_, current_timestamp_, curr_size_, replacer_size_,
                   k_, alive, latch_, thr, stamps>>

NextThreads ==
    \/ \E t \in Threads, f \in ThreadFrameIds, a \in AccessType :
           RecordAccessTick(t, f, a)
    \/ \E t \in Threads : RecordAccessStore(t)
    \/ \E t \in Threads, f \in ThreadFrameIds, b \in BOOLEAN :
           SetEvictableCount(t, f, b)
    \/ \E t \in Threads : SetEvictableFlag(t)
    \/ \E t \in Threads, f \in ThreadFrameIds : RemoveErase(t, f)
    \/ \E t \in Threads : RemoveCount(t)
    \/ \E t \in Threads, g \in ThreadFrameIds : EvictCount(t, g)
    \/ \E t \in Threads : EvictErase(t)
    \/ \E t \in Threads : SizeRead(t)

SpecThreads == InitThreads /\ [][NextThreads]_vars

\* ------------------------------------------------------------------ claims
\* frame_id is in [0, num_frames)
InRange(frame_id) == 0 <= frame_id /\ frame_id < replacer_size_

\* the step is a call of Evict that returned true; ret'.frame_id is the
\* frame handed back and the unprimed variables are the state before the call
EvictSucceeded == ret'.op = "Evict" /\ ret'.result = "true"

\* evictable frames with fewer than k recorded accesses
LessThanK(store, k) == {f \in EvictableKeys(store) : Len(store[f].history_) < k}

\* evictable frames with exactly k recorded accesses
FullK(store, k) == {f \in EvictableKeys(store) : Len(store[f].history_) = k}

\* backward k-distance of a frame with a full history: now - history.front()
BackwardKDistance(store, f, now) == now - Head(store[f].history_)

\* C1: in every state in which Size() can be called, curr_size_ equals the
\* number of tracked records whose evictable flag is true.
C1_SizeCountsEvictable ==
    alive => curr_size_ = Cardinality(EvictableKeys(node_store_))

\* C2: whenever Evict reports success, the frame it hands back was tracked
\* and marked evictable immediately before the call.
C2_EvictReturnsEvictable ==
    [][EvictSucceeded => ret'.frame_id \in EvictableKeys(node_store_)]_vars

\* C3: when the evictable frames include one with fewer than k accesses and
\* one with exactly k accesses, a successful Evict returns one with fewer
\* than k accesses.
C3_PrefersLessThanK ==
    [][(/\ EvictSucceeded
        /\ LessThanK(node_store_, k_) # {}
        /\ FullK(node_store_, k_) # {})
       => ret'.frame_id \in LessThanK(node_store_, k_)]_vars

\* C4: when two or more evictable frames have fewer than k accesses, a
\* successful Evict returns one of them, and no other of them has an older
\* first timestamp than the one returned.  (Timestamps are compared only
\* between frames that have one, so that the statement does not rest on how
\* a frame with an empty history is ranked.)
C4_LruAmongLessThanK ==
    [][(/\ EvictSucceeded
        /\ Cardinality(LessThanK(node_store_, k_)) >= 2)
       => /\ ret'.frame_id \in LessThanK(node_store_, k_)
          /\ \A g \in LessThanK(node_store_, k_) :
                 (/\ node_store_[ret'.frame_id].history_ # <<>>
                  /\ node_store_[g].history_ # <<>>)
                 => Head(node_store_[ret'.frame_id].history_)
                        <= Head(node_store_[g].history_)]_vars

\* C5: when every evictable frame has exactly k accesses, a successful Evict
\* returns the evictable frame of maximum backward k-distance.
C5_MaxBackwardKDistance ==
    [][(/\ EvictSucceeded
        /\ EvictableKeys(node_store_) # {}
        /\ EvictableKeys(node_store_) = FullK(node_store_, k_))
       => /\ ret'.frame_id \in EvictableKeys(node_store_)
          /\ \A g \in EvictableKeys(node_store_) :
                 BackwardKDistance(node_store_, ret'.frame_id, current_timestamp_)
                     >= BackwardKDistance(node_store_, g, current_timestamp_)]_vars

\* C6: a call of Evict returns false exactly when no tracked frame is
\* marked evictable.
C6_EvictFailsOnlyWhenNoneEvictable ==
    [][ret'.op = "Evict"
       => (ret'.result = "false" <=> EvictableKeys(node_store_) = {})]_vars

\* C7: after Evict succeeds and returns frame f, f is not tracked, and
\* Size() is exactly one less than before the call (no wrap-around).
C7_EvictErasesAndDecrements ==
    [][EvictSucceeded
       => /\ ret'.frame_id \notin DOMAIN node_store_'
          /\ UGt(curr_size_, 0)
          /\ curr_size_' = curr_size_ - 1]_vars

\* C7 witness: Evict has returned a frame other than the one the caller's
\* variable held, so it returned an entry of the map, and that entry is gone
\* while another frame is still tracked.
C7_Witness ==
    /\ ret.op = "Evict" /\ ret.result = "true"
    /\ ret.frame_id # ret.given
    /\ ret.frame_id \notin DOMAIN node_store_
    /\ DOMAIN node_store_ # {}

\* C8: RecordAccess throws exactly when frame_id >= num_frames; a call it
\* accepts advances the clock and leaves the frame tracked, a call it
\* rejects changes neither the clock nor any record.
C8_RecordAccessRange ==
    [][ret'.op = "RecordAccess"
       => /\ ret'.result = "returned" <=> InRange(ret'.frame_id)
          /\ ret'.result = "returned"
                => /\ current_timestamp_' = current_timestamp_ + 1
                   /\ ret'.frame_id \in DOMAIN node_store_'
          /\ ret'.result # "returned"
                => UNCHANGED <<node_store_, current_timestamp_>>]_vars

\* C9: after an accepted RecordAccess of a type other than Scan on frame f,
\* the stored history of f is the previous one with the new clock value
\* appended and, beyond k entries, the oldest dropped.
C9_HistoryAppended ==
    [][(/\ ret'.op = "RecordAccess"
        /\ ret'.result = "returned"
        /\ ret'.access_type # "Scan")
       => LET f == ret'.frame_id
              prev == IF f \in DOMAIN node_store_
                      THEN node_store_[f].history_ ELSE <<>>
              pushed == Append(prev, current_timestamp_')
              want == IF Len(pushed) > k_ THEN Tail(pushed) ELSE pushed
          IN  /\ f \in DOMAIN node_store_'
              /\ node_store_'[f].history_ = want]_vars

\* C10: SetEvictable with frame_id outside [0, num_frames) throws and leaves
\* the records and the evictable count unchanged.
C10_SetEvictableRange ==
    [][(ret'.op = "SetEvictable" /\ ~InRange(ret'.frame_id))
       => /\ ret'.result = "out_of_range"
          /\ UNCHANGED <<node_store_, curr_size_>>]_vars
\* C11: a call of SetEvictable on frame f moves the evictable count (in
\* size_t arithmetic) by +1 exactly when f goes from not evictable or
\* untracked to evictable, by -1 exactly when f goes from evictable to not
\* evictable, and by nothing otherwise; an accepted call leaves f's flag
\* equal to the flag given; and a call that repeats the previous call's
\* frame and flag changes neither the count, nor a record, nor the clock.
C11_SetEvictableCount ==
    [][ret'.op = "SetEvictable"
       => LET f == ret'.frame_id
              was == f \in EvictableKeys(node_store_)
              is == f \in EvictableKeys(node_store_')
          IN  /\ curr_size_' = curr_size_ + 1 <=> (~was /\ is)
              /\ curr_size_' = USub(curr_size_, 1) <=> (was /\ ~is)
              /\ curr_size_' = curr_size_ <=> (was <=> is)
              /\ ret'.result = "returned" => (is <=> ret'.set_evictable)
              /\ (/\ ret.op = "SetEvictable"
                  /\ ret.result = "returned"
                  /\ ret.frame_id = f
                  /\ ret.set_evictable = ret'.set_evictable)
                 => UNCHANGED <<node_store_, curr_size_, current_timestamp_>>]_vars

\* C11 witness: SetEvictable(f, true) has created an evictable record for a
\* frame that has no access recorded, and the count stands at 1.
C11_Witness ==
    /\ ret.op = "SetEvictable" /\ ret.result = "returned" /\ ret.set_evictable
    /\ ret.frame_id \in EvictableKeys(node_store_)
    /\ node_store_[ret.frame_id].history_ = <<>>
    /\ curr_size_ = 1
\* C12: SetEvictable(f, false) on a frame that has no tracked record leaves
\* f untracked and changes neither a record, nor the clock, nor the count.
C12_SetNotEvictableUntracked ==
    [][(/\ ret'.op = "SetEvictable"
        /\ ~ret'.set_evictable
        /\ ret'.frame_id \notin DOMAIN node_store_)
       => /\ ret'.frame_id \notin DOMAIN node_store_'
          /\ UNCHANGED <<node_store_, current_timestamp_, curr_size_>>]_vars
\* C13: Remove(f) on a frame that is tracked but not evictable
\* reports NotEvictable (std::exception), and on an untracked frame returns
\* silently; in both cases nothing changes.
C13_RemoveNotEvictableOrUntracked ==
    [][(ret'.op = "Remove" /\ ret'.frame_id \notin EvictableKeys(node_store_))
       => /\ ret'.result = IF ret'.frame_id \in DOMAIN node_store_
                           THEN "exception" ELSE "returned"
          /\ UNCHANGED <<node_store_, current_timestamp_, curr_size_, alive>>]_vars

\* C14: Remove(f) on a tracked, evictable frame f returns, having erased
\* exactly the record of f and decremented the evictable count by one; every
\* other record and the clock are unchanged.  Stated here for a frame that
\* has an access recorded, the case in which the record holds a history.
C14_RemoveErasesEvictable ==
    [][(/\ ret'.op = "Remove"
        /\ ret'.frame_id \in EvictableKeys(node_store_)
        /\ node_store_[ret'.frame_id].history_ # <<>>)
       => /\ ret'.result = "returned"
          /\ alive'
          /\ node_store_' = Erase(node_store_, ret'.frame_id)
          /\ curr_size_' = USub(curr_size_, 1)
          /\ current_timestamp_' = current_timestamp_]_vars

\* C15: an accepted RecordAccess leaves the same replacer state whatever its
\* access type is: with the frame and the clock of the call, every access
\* type, Scan included, would have produced the record map the call produced.
C15_AccessTypeIrrelevant ==
    [][(ret'.op = "RecordAccess" /\ ret'.result = "returned")
       => \A t \in AccessType :
              StoreAfterRecordAccess(node_store_, ret'.frame_id, t,
                                     current_timestamp_') = node_store_']_vars

\* the methods that write curr_size_; a thread inside one of them has made
\* the first of its two writes (the count or the record map), not the second
CountWriters == {"SetEvictable", "Remove", "Evict"}

\* C16: the operations, Size included, are atomic with respect to each
\* other, so none observes the intermediate state of another: when Size
\* reads the count, no thread is inside a call that changes the count,
\* between that call's first write and its return.
C16_SizeSeesNoIntermediateState ==
    [][(\E t \in Threads : SizeRead(t))
       => \A u \in Threads : thr[u].pc \notin CountWriters]_vars

\* C17: the accepted RecordAccess calls, taken in the order in which they
\* locked latch_, read distinct timestamps, each strictly greater than those
\* of the calls before it; the clock moves only by the increment of an
\* accepted RecordAccess that has just taken the lock, one at a time.
C17_ClockOrdersRecordAccess ==
    [][/\ \A i, j \in DOMAIN stamps' :
              (i < j /\ stamps'[j] # 0)
                  => (stamps'[i] # 0 /\ stamps'[i] < stamps'[j])
       /\ current_timestamp_' # current_timestamp_
              => /\ current_timestamp_' = current_timestamp_ + 1
                 /\ \E t \in Threads :
                        /\ thr[t].pc = "idle"
                        /\ thr'[t].pc = "RecordAccess"
                        /\ latch_' = t]_vars

\* two RecordAccess calls were accepted one after the other, by two threads
\* or by one, and both have read their timestamps
C17_Witness ==
    /\ Len(stamps) = 2
    /\ stamps[1] # 0
    /\ stamps[2] # 0
    /\ ret.op = "RecordAccess"

\* C18: the frame a successful Evict returns is fixed by the calls made so
\* far: whichever evictable entry the iteration of the record map meets
\* first, and whatever the caller's output variable held, Evict would have
\* returned the frame it did return.
C18_EvictChoiceDeterministic ==
    [][EvictSucceeded
       => \A first \in EvictableKeys(node_store_), given \in FrameIds :
              EvictChoice(first, node_store_[first], given,
                          current_timestamp_, k_) = ret'.frame_id]_vars

\* C19: curr_size_ is never decremented while it is 0, and the number
\* Size() returns never exceeds the number of tracked records.
C19_CountNeverWraps ==
    [][/\ curr_size_' = USub(curr_size_, 1) => UGt(curr_size_, 0)
       /\ ret'.op = "Size"
              => ~UGt(ret'.value, Cardinality(DOMAIN node_store_))]_vars

\* C20: a successful Evict removes exactly one record, that of the frame it
\* returns, and leaves the clock and every other record as they were; an
\* unsuccessful Evict changes nothing.
C20_EvictFrame ==
    [][ret'.op = "Evict"
       => IF ret'.result = "true"
          THEN /\ Found(node_store_, ret'.frame_id)
               /\ node_store_' = Erase(node_store_, ret'.frame_id)
               /\ current_timestamp_' = current_timestamp_
          ELSE UNCHANGED <<node_store_, current_timestamp_, curr_size_,
                           replacer_size_, k_>>]_vars
====
